---- MODULE Spec2Model ----
(***************************************************************************)
(* Model of students/franjaku/lesson03/src/basic_operations.py: the five   *)
(* operations on the customers table (add, search, delete, update credit,  *)
(* count active).  Every action is one whole call of one function.  The    *)
(* table is a bag of rows (a row may occur more than once), so that the    *)
(* uniqueness of customer_id is a property of the operations and not of    *)
(* the representation.                                                     *)
(***************************************************************************)
EXTENDS Integers, FiniteSets, Sequences, Bags, TLC

\* Bounds of the model: customer ids are 1..MaxId, credit limits 0..MaxCredit.
MaxId == 2
MaxCredit == 1

Ids == 1..MaxId
Credits == 0..MaxCredit
Statuses == {"Active", "Inactive", "active"}

\* The eight columns of a customer, as search_customer names them.
Fields == {"customer_id", "name", "last_name", "home_address", "phone_number",
           "email_address", "status", "credit_limit"}

\* The Customer model: the rows the customers table can hold.
Customer == [customer_id : Ids, name : {"Ann"}, last_name : {"Lee"},
             home_address : {"1 Main St"}, phone_number : {"555-0100"},
             email_address : {"c@example.org"}, status : Statuses,
             credit_limit : Credits]

\* Python's None (a record, so that it compares unequal to every row).
None == [none |-> TRUE]

\* Python's empty dict {}.
EmptyDict == [k \in {} |-> None]

VARIABLES
    table,    \* the rows of the customers table, a bag
    op,       \* name of the last function called
    arg,      \* its arguments
    ret,      \* what it returned (None when it returned nothing or raised)
    exc,      \* the exception that reached the caller, or "none"
    warned,   \* TRUE iff the call issued warnings.warn(..., UserWarning)
    logged,   \* level of the LOGGER call made: "none", "info" or "warning"
    pre,      \* the table as it was when the last call started
    before    \* the arguments of the call before the last one, when that was
              \* an add_customer of an id the table did not hold; else None

vars == <<table, op, arg, ret, exc, warned, logged, pre, before>>

\* The rows of t that satisfy the where clause customer_id = <customer_id>.
Matching(t, customer_id) == {r \in BagToSet(t) : r.customer_id = customer_id}

\* The bag t without the rows outside the set S.
Restrict(t, S) == [r \in BagToSet(t) \cap S |-> CopiesIn(r, t)]

\* TRUE iff some row of t has the primary key customer_id.
HasId(t, customer_id) == Matching(t, customer_id) # {}

\* The row of t with the primary key customer_id (any one, were there several).
RowOf(t, customer_id) == CHOOSE r \in Matching(t, customer_id) : TRUE

----------------------------------------------------------------------------
(* The mapping layer's statements, as basic_operations.py uses them.       *)

\* instance.save() of an instance whose primary key is set:
\* UPDATE customers SET <all columns> WHERE customer_id = <key>.
save_no_where(t, customer) ==
    LET changed(r) == [customer EXCEPT !.customer_id = r.customer_id]
        new == {changed(r) : r \in BagToSet(t)}
    IN  [n \in new |->
            BagCardinality(Restrict(t, {r \in BagToSet(t) : changed(r) = n}))]

save(t, customer) ==
    LET hit == Matching(t, customer.customer_id)
    IN  IF hit = {}
        THEN t
        ELSE Restrict(t, BagToSet(t) \ hit)
                (+) [r \in {customer} |-> BagCardinality(Restrict(t, hit))]

\* Customer.create(...): INSERT, which the primary key on customer_id
\* refuses with IntegrityError when a row with that key exists.
create_replace(t, row) ==
    [err |-> "none",
     table |-> Restrict(t, BagToSet(t) \ Matching(t, row.customer_id))
                  (+) SetToBag({row})]

create_no_primary_key(t, row) ==
    [err |-> "none", table |-> t (+) SetToBag({row})]

create(t, row) ==
    IF HasId(t, row.customer_id)
    THEN [err |-> "IntegrityError", table |-> t]
    ELSE [err |-> "none", table |-> t (+) SetToBag({row})]

\* Customer.get_or_none(Customer.customer_id == customer_id)
get_or_none_no_filter(t, customer_id) ==
    IF BagToSet(t) # {} THEN CHOOSE r \in BagToSet(t) : TRUE ELSE None

get_or_none(t, customer_id) ==
    IF HasId(t, customer_id) THEN RowOf(t, customer_id) ELSE None

\* Customer.delete().where(Customer.customer_id == customer_id).execute():
\* removes the matching rows and returns how many they were.
delete_where_no_filter(t, customer_id) ==
    [rows |-> BagCardinality(t), table |-> EmptyBag]

delete_where_nothing(t, customer_id) ==
    [rows |-> BagCardinality(Restrict(t, Matching(t, customer_id))),
     table |-> t]

delete_where(t, customer_id) ==
    [rows |-> BagCardinality(Restrict(t, Matching(t, customer_id))),
     table |-> Restrict(t, BagToSet(t) \ Matching(t, customer_id))]

\* Customer.select().where(Customer.status == 'Active')
select_all(t) == t

select_active(t) == Restrict(t, {r \in BagToSet(t) : r.status = "Active"})

\* The dictionary search_customer builds from a row.
customer_dict_swapped(customer) ==
    [customer_id   |-> customer.customer_id,
     name          |-> customer.last_name,
     last_name     |-> customer.name,
     home_address  |-> customer.home_address,
     phone_number  |-> customer.phone_number,
     email_address |-> customer.email_address,
     status        |-> customer.status,
     credit_limit  |-> customer.credit_limit]

customer_dict(customer) ==
    [customer_id   |-> customer.customer_id,
     name          |-> customer.name,
     last_name     |-> customer.last_name,
     home_address  |-> customer.home_address,
     phone_number  |-> customer.phone_number,
     email_address |-> customer.email_address,
     status        |-> customer.status,
     credit_limit  |-> customer.credit_limit]

----------------------------------------------------------------------------
(* The calls.                                                               *)

\* What every call records about itself for the caller to observe.
Return(o, a, r, e, w, l) ==
    /\ op' = o
    /\ arg' = a
    /\ ret' = r
    /\ exc' = e
    /\ warned' = w
    /\ logged' = l
    /\ pre' = table
    /\ before' = IF op = "add_customer" /\ ~HasId(pre, arg.customer_id)
                 THEN arg
                 ELSE None

Init ==
    /\ table = EmptyBag
    /\ op = "none"
    /\ arg = None
    /\ ret = None
    /\ exc = "none"
    /\ warned = FALSE
    /\ logged = "none"
    /\ pre = EmptyBag
    /\ before = None

add_customer(customer_id, name, last_name, home_address, phone_number, email_address, status, credit_limit) ==
    LET new_customer == [customer_id   |-> customer_id,
                         name          |-> name,
                         last_name     |-> last_name,
                         home_address  |-> home_address,
                         phone_number  |-> phone_number,
                         email_address |-> email_address,
                         status        |-> status,
                         credit_limit  |-> credit_limit]
        created == create(table, new_customer)
    IN  IF created.err = "none"
        THEN /\ table' = save(created.table, new_customer)
             /\ Return("add_customer", new_customer, None, "none", FALSE, "info")
        ELSE \* except peewee.IntegrityError: print, LOGGER.warning, go on
             /\ table' = created.table
             /\ Return("add_customer", new_customer, None, "none", FALSE, "warning")

\* search_customer up to its return: the value returned and the exception raised.
search_result_get(t, customer_id) ==
    IF HasId(t, customer_id)
    THEN [ret |-> customer_dict(RowOf(t, customer_id)), exc |-> "none"]
    ELSE [ret |-> None, exc |-> "DoesNotExist"]

search_result(t, customer_id) ==
    LET customer == get_or_none(t, customer_id)
    IN  IF customer # None
        THEN [ret |-> customer_dict(customer), exc |-> "none"]
        ELSE [ret |-> EmptyDict, exc |-> "none"]

search_customer(customer_id) ==
    LET result == search_result(table, customer_id)
    IN  /\ table' = table
        /\ Return("search_customer", customer_id, result.ret, result.exc,
                  FALSE, "none")

delete_customer(customer_id) ==
    LET query == delete_where(table, customer_id)
    IN  /\ table' = query.table
        /\ Return("delete_customer", customer_id, None, "none",
                  query.rows = 0, "none")

update_customer_credit(customer_id, credit_limit) ==
    LET customer == get_or_none(table, customer_id)
    IN  IF customer # None
        THEN /\ table' = save(table, [customer EXCEPT !.credit_limit = credit_limit])
             /\ Return("update_customer_credit", <<customer_id, credit_limit>>,
                       None, "none", FALSE, "info")
        ELSE /\ table' = table
             /\ Return("update_customer_credit", <<customer_id, credit_limit>>,
                       None, "ValueError", FALSE, "none")

list_active_customers ==
    LET query == select_active(table)
        active_customers == BagCardinality(query)
    IN  /\ table' = table
        /\ Return("list_active_customers", <<>>, active_customers,
                  "none", FALSE, "info")

Next ==
    \/ \E customer_id \in Ids, status \in Statuses, credit_limit \in Credits :
          add_customer(customer_id, "Ann", "Lee", "1 Main St", "555-0100",
                       "c@example.org", status, credit_limit)
    \/ \E customer_id \in Ids : search_customer(customer_id)
    \/ \E customer_id \in Ids : delete_customer(customer_id)
    \/ \E customer_id \in Ids, credit_limit \in Credits :
          update_customer_credit(customer_id, credit_limit)
    \/ list_active_customers

Spec == Init /\ [][Next]_vars

----------------------------------------------------------------------------
(* Properties.                                                              *)

TypeOK ==
    /\ IsABag(table) /\ BagToSet(table) \subseteq Customer
    /\ IsABag(pre) /\ BagToSet(pre) \subseteq Customer
    /\ op \in {"none", "add_customer", "search_customer", "delete_customer",
               "update_customer_credit", "list_active_customers"}
    /\ exc \in {"none", "ValueError"}
    /\ warned \in BOOLEAN
    /\ logged \in {"none", "info", "warning"}

\* The columns of a row other than credit_limit.
OtherFields == Fields \ {"credit_limit"}

\* C1: add_customer of an id the table does not hold, followed at once by
\* search_customer of that id, returns a mapping with exactly the eight
\* entries, each the value given to add_customer.
C1_AddThenSearchReturnsSupplied ==
    (op = "search_customer" /\ before # None /\ before.customer_id = arg) =>
        /\ exc = "none"
        /\ DOMAIN ret = Fields
        /\ \A f \in Fields : ret[f] = before[f]

C1_Witness ==
    /\ op = "search_customer"
    /\ before # None
    /\ before.customer_id = arg
    /\ before.status = "Inactive"
    /\ ret # EmptyDict
    /\ BagCardinality(table) > 1

C3_UpdateAbsentRaises ==
    (op = "update_customer_credit" /\ ~HasId(pre, arg[1])) =>
        /\ exc = "ValueError"
        /\ table = pre

C3_Witness ==
    /\ op = "update_customer_credit"
    /\ ~HasId(pre, arg[1])
    /\ pre # EmptyBag
    /\ exc = "ValueError"

\* C4: update_customer_credit of an id the table holds sets that row's
\* credit_limit to the new limit, keeps the row's other columns and every
\* other row, and raises nothing.
C4_UpdateExistingSetsCredit ==
    (op = "update_customer_credit" /\ HasId(pre, arg[1])) =>
        /\ exc = "none"
        /\ BagCardinality(table) = BagCardinality(pre)
        /\ \A r \in BagToSet(pre) : r.customer_id # arg[1] =>
              CopiesIn(r, table) = CopiesIn(r, pre)
        /\ \A r \in BagToSet(table) : r.customer_id = arg[1] =>
              /\ r.credit_limit = arg[2]
              /\ \E q \in BagToSet(pre) : \A f \in OtherFields : q[f] = r[f]
        /\ HasId(table, arg[1])

C4_Witness ==
    /\ op = "update_customer_credit"
    /\ HasId(pre, arg[1])
    /\ RowOf(pre, arg[1]).credit_limit # arg[2]
    /\ RowOf(table, arg[1]).credit_limit = arg[2]
    /\ BagCardinality(pre) > 1

\* C5: delete_customer of an id the table does not hold raises nothing,
\* issues the warning, and leaves the table as it was.
C5_DeleteAbsentNoOp ==
    (op = "delete_customer" /\ ~HasId(pre, arg)) =>
        /\ exc = "none"
        /\ warned
        /\ table = pre

C5_Witness ==
    /\ op = "delete_customer"
    /\ ~HasId(pre, arg)
    /\ pre # EmptyBag
    /\ warned

\* C6: delete_customer of an id the table holds removes the row with that
\* id, so that search_customer of it returns the empty mapping, keeps every
\* other row, and issues no warning.
C6_DeleteExistingRemoves ==
    (op = "delete_customer" /\ HasId(pre, arg)) =>
        /\ exc = "none"
        /\ ~warned
        /\ ~HasId(table, arg)
        /\ search_result(table, arg) = [ret |-> EmptyDict, exc |-> "none"]
        /\ \A r \in BagToSet(pre) : r.customer_id # arg =>
              CopiesIn(r, table) = CopiesIn(r, pre)
        /\ table \sqsubseteq pre

C6_Witness ==
    /\ op = "delete_customer"
    /\ HasId(pre, arg)
    /\ ~HasId(table, arg)
    /\ table # EmptyBag

\* C7: list_active_customers returns the number of customers whose status
\* is the string "Active", whatever calls came before, and changes nothing.
C7_ListCountsActive ==
    (op = "list_active_customers") =>
        /\ exc = "none"
        /\ table = pre
        /\ ret = Cardinality({id \in Ids : \E r \in BagToSet(table) :
                                 r.customer_id = id /\ r.status = "Active"})

C7_Witness ==
    /\ op = "list_active_customers"
    /\ ret = 1
    /\ \E r \in BagToSet(table) : r.status # "Active"

\* C8: search_customer of an id the table does not hold returns the empty
\* mapping, raises nothing and leaves the table as it was.
C8_SearchAbsentEmpty ==
    (op = "search_customer" /\ ~HasId(pre, arg)) =>
        /\ exc = "none"
        /\ ret = EmptyDict
        /\ table = pre

C8_Witness ==
    /\ op = "search_customer"
    /\ ~HasId(pre, arg)
    /\ pre # EmptyBag
    /\ ret = EmptyDict

\* C9: the table never holds two rows with the same customer_id.
C9_CustomerIdUnique ==
    \A r1 \in BagToSet(table) :
        /\ CopiesIn(r1, table) = 1
        /\ \A r2 \in BagToSet(table) : r1.customer_id = r2.customer_id => r1 = r2

C9_Witness ==
    /\ BagCardinality(table) = MaxId
    /\ op = "add_customer"
    /\ logged = "warning"
    /\ ~BagIn(arg, table)

\* C10: add_customer of an id the table already holds raises an exception
\* to its caller.
C10_AddExistingThrows ==
    (op = "add_customer" /\ HasId(pre, arg.customer_id)) => exc # "none"

====
